---- MODULE Spec2Model ----
(***************************************************************************)
(* Model of TableImageGenerator (src/table.py): the value formatter, the   *)
(* table data builder, the grid geometry calculator and the table          *)
(* compositor, with the generator instance's mutable cell/font sizes.      *)
(*                                                                         *)
(* Python values are records [t, v, s]: t is the type ("None", "int",      *)
(* "float", "str"), v the number of an int or of a float (only floats with *)
(* an integral value are used), s the characters of a str.  A Python str   *)
(* is a sequence of characters; the two CJK characters of the month/day    *)
(* format are written "yue" (U+6708) and "ri" (U+65E5).                    *)
(***************************************************************************)
EXTENDS Integers, Sequences, FiniteSets, TLC

VARIABLES
    cell_width,   \* self.cell_width (NoWidth while it is None)
    cell_height,  \* self.cell_height
    font_size,    \* self.font_size
    tz,           \* the process's local UTC offset in seconds
    pc,           \* "idle": no call in progress; "returned": a call has ended
    call,         \* the arguments of the last call
    ret           \* what the last call returned or raised

vars == <<cell_width, cell_height, font_size, tz, pc, call, ret>>

----------------------------------------------------------------------------
(* Python values *)

None == [t |-> "None", v |-> 0, s |-> <<>>]
PInt(n) == [t |-> "int", v |-> n, s |-> <<>>]
PFloat(n) == [t |-> "float", v |-> n, s |-> <<>>]
PStr(chars) == [t |-> "str", v |-> 0, s |-> chars]

Digits == <<"0", "1", "2", "3", "4", "5", "6", "7", "8", "9">>

IsDigit(c) == \E d \in 1..10 : Digits[d] = c

DigitVal(c) == (CHOOSE d \in 1..10 : Digits[d] = c) - 1

RECURSIVE NatToStr(_)
NatToStr(n) ==
    IF n < 10 THEN <<Digits[n + 1]>>
    ELSE NatToStr(n \div 10) \o <<Digits[(n % 10) + 1]>>

\* str() of an int
IntToStr(n) == IF n < 0 THEN <<"-">> \o NatToStr(0 - n) ELSE NatToStr(n)

\* str(value)
Str(value) ==
    CASE value.t = "None" -> <<"N", "o", "n", "e">>
      [] value.t = "int" -> IntToStr(value.v)
      [] value.t = "float" -> IntToStr(value.v) \o <<".", "0">>
      [] value.t = "str" -> value.s

\* s.strip(): int() and float() ignore surrounding blanks
RECURSIVE Strip(_)
Strip(s) ==
    IF s = <<>> THEN s
    ELSE IF Head(s) = " " THEN Strip(Tail(s))
    ELSE IF s[Len(s)] = " " THEN Strip(SubSeq(s, 1, Len(s) - 1))
    ELSE s

HasSign(s) == s # <<>> /\ Head(s) \in {"-", "+"}

Unsigned(s) == IF HasSign(s) THEN Tail(s) ELSE s

AllDigits(s) == s # <<>> /\ \A i \in 1..Len(s) : IsDigit(s[i])

RECURSIVE DigitsVal(_)
DigitsVal(s) ==
    IF s = <<>> THEN 0
    ELSE 10 * DigitsVal(SubSeq(s, 1, Len(s) - 1)) + DigitVal(s[Len(s)])

\* int(value) does not raise ValueError/TypeError
IntParses(value) ==
    CASE value.t = "None" -> FALSE
      [] value.t = "int" -> TRUE
      [] value.t = "float" -> TRUE
      [] value.t = "str" -> AllDigits(Unsigned(Strip(value.s)))

\* int(value), where it parses
IntOf(value) ==
    IF value.t = "str"
    THEN (IF Head(Strip(value.s)) = "-" THEN 0 - DigitsVal(Unsigned(Strip(value.s)))
          ELSE DigitsVal(Unsigned(Strip(value.s))))
    ELSE value.v

\* the decimal numerals float() accepts: digits with at most one point and at
\* least one digit (exponent forms, inf and nan are outside the value sets)
IsDecimal(s) ==
    /\ \E i \in 1..Len(s) : IsDigit(s[i])
    /\ \A i \in 1..Len(s) : IsDigit(s[i]) \/ s[i] = "."
    /\ Cardinality({i \in 1..Len(s) : s[i] = "."}) <= 1

\* float(value) does not raise ValueError/TypeError
FloatParses(value) ==
    CASE value.t = "None" -> FALSE
      [] value.t = "int" -> TRUE
      [] value.t = "float" -> TRUE
      [] value.t = "str" -> IsDecimal(Unsigned(Strip(value.s)))

\* float(value) == 0, where it parses
FloatIsZero(value) ==
    IF value.t = "str"
    THEN \A i \in 1..Len(value.s) : IsDigit(value.s[i]) => value.s[i] = "0"
    ELSE value.v = 0

----------------------------------------------------------------------------
(* datetime.fromtimestamp(ts).strftime(...) *)

Pad2(n) == IF n < 10 THEN <<"0">> \o NatToStr(n) ELSE NatToStr(n)

Pad4(n) ==
    IF n < 10 THEN <<"0", "0", "0">> \o NatToStr(n)
    ELSE IF n < 100 THEN <<"0", "0">> \o NatToStr(n)
    ELSE IF n < 1000 THEN <<"0">> \o NatToStr(n)
    ELSE NatToStr(n)

\* the proleptic Gregorian date of day number `days` (0 is 1970-01-01)
CivilFromDays(days) ==
    LET z == days + 719468
        era == z \div 146097
        doe == z - era * 146097
        yoe == (doe - doe \div 1460 + doe \div 36524 - doe \div 146096) \div 365
        doy == doe - (365 * yoe + yoe \div 4 - yoe \div 100)
        mp == (5 * doy + 2) \div 153
        d == doy - (153 * mp + 2) \div 5 + 1
        m == IF mp < 10 THEN mp + 3 ELSE mp - 9
        y == yoe + era * 400 + (IF m <= 2 THEN 1 ELSE 0)
    IN  [year |-> y, month |-> m, day |-> d]

\* the local broken-down time of a unix timestamp
FromTimestamp(ts, offset) ==
    LET local == ts + offset
        date == CivilFromDays(local \div 86400)
        secs == local % 86400
    IN  [year |-> date.year, month |-> date.month, day |-> date.day,
         hour |-> secs \div 3600, minute |-> (secs % 3600) \div 60,
         second |-> secs % 60]

\* strftime('%Y-%m-%d %H:%M:%S')
StrfDatetime(ts, offset) ==
    LET dt == FromTimestamp(ts, offset)
    IN  Pad4(dt.year) \o <<"-">> \o Pad2(dt.month) \o <<"-">> \o Pad2(dt.day)
        \o <<" ">> \o Pad2(dt.hour) \o <<":">> \o Pad2(dt.minute)
        \o <<":">> \o Pad2(dt.second)

\* strftime('%m<yue>%d<ri>')
StrfMonthDay(ts, offset) ==
    LET dt == FromTimestamp(ts, offset)
    IN  Pad2(dt.month) \o <<"yue">> \o Pad2(dt.day) \o <<"ri">>

----------------------------------------------------------------------------
(* TableImageGenerator._process_value *)

TO_FORMAT == <<"t", "o", "_", "f", "o", "r", "m", "a", "t">>
TO_DAY == <<"t", "o", "_", "d", "a", "y">>
PLACEHOLDER == <<"-">>

\* `if format_type:` -- None and '' are falsy
Truthy(pyval) == ~(pyval.t = "None" \/ (pyval.t = "str" /\ pyval.s = <<>>))

\* a mutant: the zero test placed before the format test
ProcessValueZeroFirst(value, replace_zero, format_type, offset) ==
    IF value.t = "None" \/ (value.t = "str" /\ value.s = <<>>) THEN PLACEHOLDER
    ELSE IF replace_zero /\ FloatParses(value) /\ FloatIsZero(value) THEN PLACEHOLDER
    ELSE IF Truthy(format_type) /\ ~IntParses(value) THEN Str(value)
    ELSE IF Truthy(format_type) /\ format_type = PStr(TO_FORMAT)
         THEN StrfDatetime(IntOf(value), offset)
    ELSE IF Truthy(format_type) /\ format_type = PStr(TO_DAY)
         THEN StrfMonthDay(IntOf(value), offset)
    ELSE Str(value)

\* _process_value(value, replace_zero, format_type); offset is the local UTC
\* offset that datetime.fromtimestamp applies
ProcessValue(value, replace_zero, format_type, offset) ==
    IF value.t = "None" \/ (value.t = "str" /\ value.s = <<>>) THEN PLACEHOLDER
    ELSE IF Truthy(format_type) /\ ~IntParses(value) THEN Str(value)
    ELSE IF Truthy(format_type) /\ format_type = PStr(TO_FORMAT)
         THEN StrfDatetime(IntOf(value), offset)
    ELSE IF Truthy(format_type) /\ format_type = PStr(TO_DAY)
         THEN StrfMonthDay(IntOf(value), offset)
    ELSE IF replace_zero /\ FloatParses(value) /\ FloatIsZero(value) THEN PLACEHOLDER
    ELSE Str(value)

----------------------------------------------------------------------------
(* The generator instance and its environment *)

NoWidth == 0        \* self.cell_width = None
CELL_HEIGHT == 60   \* self.cell_height
FONT_SIZE == 24     \* self.font_size

\* local UTC offsets the process may run under
TZOffsets == {0, 28800}

NoCall == [op |-> "none"]
NoRet == [op |-> "none"]

\* TableImageGenerator.__init__
Init ==
    /\ cell_width = NoWidth
    /\ cell_height = CELL_HEIGHT
    /\ font_size = FONT_SIZE
    /\ tz \in TZOffsets
    /\ pc = "idle"
    /\ call = NoCall
    /\ ret = NoRet

\* the call has returned (or raised) to its caller, which drops the result
Return ==
    /\ pc = "returned"
    /\ pc' = "idle"
    /\ call' = NoCall
    /\ ret' = NoRet
    /\ UNCHANGED <<cell_width, cell_height, font_size, tz>>

----------------------------------------------------------------------------
(* The value formatter called on its own *)

S_FAIL == <<"F", "A", "I", "L">>
S_NAME == <<"N", "a", "m", "e">>
TO_DATETIME == <<"t", "o", "_", "d", "a", "t", "e", "t", "i", "m", "e">>
TO_MONTHDAY == <<"t", "o", "_", "m", "o", "n", "t", "h", "d", "a", "y">>

FormatValues ==
    {None, PStr(<<>>), PStr(<<"-">>), PInt(0), PInt(5), PInt(86399),
     PInt(1700000000), PFloat(0), PFloat(5), PStr(<<"0">>), PStr(<<"0", ".", "0">>),
     PStr(<<"5">>), PStr(<<" ", "7", " ">>), PStr(S_FAIL)}

FormatTypes ==
    {None, PStr(<<>>), PStr(TO_FORMAT), PStr(TO_DAY), PStr(TO_DATETIME),
     PStr(TO_MONTHDAY), PStr(S_NAME)}

\* a direct call of _process_value
ProcessValueCall ==
    /\ pc = "idle"
    /\ \E value \in FormatValues, replace_zero \in BOOLEAN, format_type \in FormatTypes :
          /\ call' = [op |-> "_process_value", value |-> value,
                      replace_zero |-> replace_zero, format_type |-> format_type]
          /\ ret' = [op |-> "_process_value",
                     out |-> ProcessValue(value, replace_zero, format_type, tz)]
    /\ pc' = "returned"
    /\ UNCHANGED <<cell_width, cell_height, font_size, tz>>

NextFormat == ProcessValueCall \/ Return

SpecFormat == Init /\ [][NextFormat]_vars

\* 'YYYY-MM-DD HH:MM:SS'
IsDatetimeString(s) ==
    /\ Len(s) = 19
    /\ s[5] = "-" /\ s[8] = "-" /\ s[11] = " " /\ s[14] = ":" /\ s[17] = ":"
    /\ \A i \in (1..19) \ {5, 8, 11, 14, 17} : IsDigit(s[i])

\* 'MM<yue>DD<ri>'
IsMonthDayString(s) ==
    /\ Len(s) = 6
    /\ s[3] = "yue" /\ s[6] = "ri"
    /\ \A i \in {1, 2, 4, 5} : IsDigit(s[i])

FormatReturned == pc = "returned" /\ call.op = "_process_value"

\* the claim's precondition: not None, not '', parses as an integer
IsTimestamp(value) ==
    /\ value.t # "None"
    /\ ~(value.t = "str" /\ value.s = <<>>)
    /\ IntParses(value)

\* C2 as stated: with format kind "to_datetime" or "to_monthday" an integer
\* value is returned as a date/datetime string whatever replace_zero is
C2_AsStated ==
    (FormatReturned /\ IsTimestamp(call.value)
       /\ call.format_type \in {PStr(TO_DATETIME), PStr(TO_MONTHDAY)})
    => (IsDatetimeString(ret.out) \/ IsMonthDayString(ret.out))

\* C2 amended: with the format kinds the code recognises, 'to_format' and
\* 'to_day', an integer value is returned as the datetime string, respectively
\* the month/day string, of that timestamp whatever replace_zero is, and never
\* as the placeholder
C2_FormatPrecedence ==
    (FormatReturned /\ IsTimestamp(call.value))
    => /\ call.format_type = PStr(TO_FORMAT)
            => (IsDatetimeString(ret.out) /\ ret.out # PLACEHOLDER)
       /\ call.format_type = PStr(TO_DAY)
            => (IsMonthDayString(ret.out) /\ ret.out # PLACEHOLDER)

\* C2 witness: _process_value(0, True, 'to_format') returned a datetime string
C2_Witness ==
    /\ FormatReturned
    /\ call.value = PInt(0) /\ call.replace_zero /\ call.format_type = PStr(TO_FORMAT)
    /\ IsDatetimeString(ret.out)

\* a check of the date arithmetic on known timestamps
DatesAsKnown ==
    /\ StrfDatetime(0, 0) = <<"1","9","7","0","-","0","1","-","0","1"," ","0","0",":","0","0",":","0","0">>
    /\ StrfDatetime(1700000000, 0) = <<"2","0","2","3","-","1","1","-","1","4"," ","2","2",":","1","3",":","2","0">>
    /\ StrfDatetime(1709251199, 28800) = <<"2","0","2","4","-","0","3","-","0","1"," ","0","7",":","5","9",":","5","9">>
    /\ StrfMonthDay(1709164800, 0) = <<"0","2","yue","2","9","ri">>

----------------------------------------------------------------------------
(* TableImageGenerator._build_table_data *)

\* An optional list or dict argument: given is FALSE for None.
NoneList == [given |-> FALSE, items |-> <<>>]
List(items) == [given |-> TRUE, items |-> items]
NoneDict == [given |-> FALSE, map |-> <<>>]
Dict(map) == [given |-> TRUE, map |-> map]

\* `if x:` for a list and for a dict: None and the empty container are falsy
ListTruthy(list) == list.given /\ list.items # <<>>
DictTruthy(dict) == dict.given /\ DOMAIN dict.map # {}

\* dict.get(key, default) of column_display
DictGet(dict, key, default) ==
    IF key \in DOMAIN dict.map THEN dict.map[key] ELSE default

\* row.get(col, default): a record is the sequence of its (k, val) items in
\* insertion order
RowGet(row, col, default) ==
    LET at == {i \in 1..Len(row) : row[i].k = col}
    IN  IF at = {} THEN default ELSE row[CHOOSE i \in at : TRUE].val

\* `value in [None, '', '-', 0, '0', 0.0, '0.0']`
IsEmptyValue(value) ==
    \/ value.t = "None"
    \/ value.t = "str" /\ value.s \in {<<>>, <<"-">>, <<"0">>, <<"0", ".", "0">>}
    \/ value.t \in {"int", "float"} /\ value.v = 0

\* col ends up in valid_columns
IsValidColumn(data, col) ==
    \E i \in 1..Len(data) : ~IsEmptyValue(RowGet(data[i], col, None))

\* filtered_columns
FilteredColumns(data, columns_order) ==
    IF ListTruthy(columns_order)
    THEN LET Valid(col) == IsValidColumn(data, col)
         IN  List(SelectSeq(columns_order.items, Valid))
    ELSE NoneList

\* a header cell {"text", "colspan", "rowspan"} and the null of a merged column
HCell(text, colspan) == [real |-> TRUE, text |-> text, colspan |-> colspan, rowspan |-> 1]
Marker == [real |-> FALSE, text |-> <<>>, colspan |-> 0, rowspan |-> 0]

\* a mutant: the declared span is taken whole
ValidSpanDeclared(current_position, span, n) == span

\* valid_span: the positions of the span that lie below len(filtered_columns)
ValidSpan(current_position, span, n) ==
    Cardinality({i \in 0..(span - 1) : current_position + i < n})

RECURSIVE LayerSpan(_)
LayerSpan(layer) ==
    IF layer = <<>> THEN 0 ELSE Head(layer).span + LayerSpan(Tail(layer))

\* the header_row of one layer, walked from current_position
RECURSIVE LayerRow(_, _, _)
LayerRow(layer, current_position, n) ==
    IF layer = <<>> THEN <<>>
    ELSE LET valid_span == ValidSpan(current_position, Head(layer).span, n)
             cells == IF valid_span > 0
                      THEN <<HCell(Head(layer).header, valid_span)>>
                           \o [i \in 1..(valid_span - 1) |-> Marker]
                      ELSE <<>>
         IN  cells \o LayerRow(Tail(layer), current_position + Head(layer).span, n)

\* the header rows of all layers; current_position runs on from layer to layer
RECURSIVE MultiRows(_, _, _)
MultiRows(layers, current_position, n) ==
    IF layers = <<>> THEN <<>>
    ELSE LET header_row == LayerRow(Head(layers), current_position, n)
         IN  (IF header_row # <<>> THEN <<header_row>> ELSE <<>>)
             \o MultiRows(Tail(layers), current_position + LayerSpan(Head(layers)), n)

\* display_name of a column
DisplayName(col, column_display) ==
    LET display_value == DictGet(column_display, col, None)
    IN  IF display_value \in {PStr(TO_DAY), PStr(TO_FORMAT)} THEN col
        ELSE DictGet(column_display, col, PStr(col)).s

\* the header row of the column names
NameRow(filtered_columns, column_display) ==
    [j \in 1..Len(filtered_columns.items) |->
        HCell(DisplayName(filtered_columns.items[j], column_display), 1)]

\* format_type of a column in the data rows
RowFormatType(col, column_display) ==
    IF DictTruthy(column_display) THEN DictGet(column_display, col, None) ELSE None

\* `if filtered_columns:` in the row loop
SelectsColumns(filtered_columns) == ListTruthy(filtered_columns)

\* row_data of one record
RowData(row, filtered_columns, column_display, replace_zero, offset) ==
    IF SelectsColumns(filtered_columns)
    THEN [j \in 1..Len(filtered_columns.items) |->
            ProcessValue(RowGet(row, filtered_columns.items[j], PStr(<<>>)),
                         replace_zero,
                         RowFormatType(filtered_columns.items[j], column_display),
                         offset)]
    ELSE [j \in 1..Len(row) |-> Str(row[j].val)]

\* the exception _build_table_data raises, "" when it returns
BuildRaises(filtered_columns, multi_columns, column_display) ==
    IF ListTruthy(multi_columns)
    THEN IF /\ ~filtered_columns.given
            /\ \E l \in 1..Len(multi_columns.items) :
                 \E h \in 1..Len(multi_columns.items[l]) :
                    multi_columns.items[l][h].span > 0
         THEN "TypeError"        \* len(None)
         ELSE ""
    ELSE IF ~filtered_columns.given THEN "TypeError"   \* for col in None
    ELSE IF filtered_columns.items # <<>> /\ ~column_display.given
         THEN "AttributeError"   \* None.get
    ELSE ""

\* _build_table_data(data, columns_order, multi_columns, column_display, replace_zero)
BuildTableData(data, columns_order, multi_columns, column_display, replace_zero, offset) ==
    LET filtered_columns == FilteredColumns(data, columns_order)
        raised == BuildRaises(filtered_columns, multi_columns, column_display)
        headers ==
            IF ListTruthy(multi_columns)
            THEN MultiRows(multi_columns.items, 0, Len(filtered_columns.items))
                 \o (IF DictTruthy(column_display) /\ ListTruthy(filtered_columns)
                     THEN <<NameRow(filtered_columns, column_display)>>
                     ELSE <<>>)
            ELSE <<NameRow(filtered_columns, column_display)>>
        rows == [i \in 1..Len(data) |->
                   RowData(data[i], filtered_columns, column_display, replace_zero, offset)]
    IN  IF raised # ""
        THEN [raised |-> raised, filtered |-> filtered_columns, headers |-> <<>>, data |-> <<>>]
        ELSE [raised |-> "", filtered |-> filtered_columns, headers |-> headers, data |-> rows]

----------------------------------------------------------------------------
(* TableImageGenerator._calculate_table_size *)

MIN_CELL_WIDTH == 120
MAX_CELL_WIDTH == 240
TargetTotalWidth == 1920 - 2 * 40

MaxNat(S) == IF S = {} THEN 0 ELSE CHOOSE m \in S : \A x \in S : x <= m

RECURSIVE RowCols(_)
\* curr_cols of a header row: the colspans of its cells that are not None
RowCols(row) ==
    IF row = <<>> THEN 0
    ELSE (IF Head(row).real THEN Head(row).colspan ELSE 0) + RowCols(Tail(row))

\* header_cols
HeaderCols(headers) == MaxNat({RowCols(headers[r]) : r \in 1..Len(headers)})

\* total_cols, where data is not empty
TotalCols(headers, data) ==
    MaxNat({HeaderCols(headers)} \cup {Len(data[i]) : i \in 1..Len(data)})

\* a mutant: the two limits exchanged
ClampWidthSwapped(suggested_width) ==
    IF suggested_width > MAX_CELL_WIDTH THEN MIN_CELL_WIDTH
    ELSE IF suggested_width < MIN_CELL_WIDTH THEN MAX_CELL_WIDTH
    ELSE suggested_width

\* the cell width chosen for suggested_width
ClampWidth(suggested_width) ==
    IF suggested_width > MAX_CELL_WIDTH THEN MAX_CELL_WIDTH
    ELSE IF suggested_width < MIN_CELL_WIDTH THEN MIN_CELL_WIDTH
    ELSE suggested_width

\* _calculate_table_size(headers, data) with self.cell_height = height: the
\* exception it raises ("" when it returns), the width it stores in
\* self.cell_width and the size it returns
CalculateTableSize(headers, data, height) ==
    IF data = <<>>
    THEN [raised |-> "ValueError", total_cols |-> 0, cell_width |-> 0,
          total_width |-> 0, total_height |-> 0]           \* max() of nothing
    ELSE IF TotalCols(headers, data) = 0
    THEN [raised |-> "ZeroDivisionError", total_cols |-> 0, cell_width |-> 0,
          total_width |-> 0, total_height |-> 0]
    ELSE LET total_cols == TotalCols(headers, data)
             width == ClampWidth(TargetTotalWidth \div total_cols)
         IN  [raised |-> "", total_cols |-> total_cols, cell_width |-> width,
              total_width |-> total_cols * width + 1,
              total_height |-> (Len(headers) + Len(data)) * height + 1]

----------------------------------------------------------------------------
(* TableImageGenerator._create_table and _draw_cell *)

DPI == 150           \* the dpi create_table_image asks for
DEFAULT_DPI == 300   \* the default of _create_table's dpi
BASE_DPI == 72

\* int(x * scale_factor) with scale_factor = dpi / 72
Scaled(x, dpi) == (x * dpi) \div BASE_DPI

\* a mutant: the sizes are left as scaled
RestoredNot(original, scaled) == scaled

\* self.cell_width = original_cell_width, and so for cell_height and font_size
Restored(original, scaled) == original

\* the Cell made of a header entry of the JSON table: a dict gives a Cell,
\* null gives None
ToCell(entry) ==
    IF entry.real
    THEN [real |-> TRUE, text |-> entry.text, colspan |-> entry.colspan,
          rowspan |-> entry.rowspan]
    ELSE Marker

ToCells(raw_headers) ==
    [r \in 1..Len(raw_headers) |->
        [c \in 1..Len(raw_headers[r]) |-> ToCell(raw_headers[r][c])]]

\* the grid positions a cell at (row_idx, col_idx) marks in drawn_cells
Footprint(row_idx, col_idx, cell, nrows, ncols) ==
    {<<row_idx + r, col_idx + c>> :
        r \in 0..(cell.rowspan - 1), c \in 0..(cell.colspan - 1)}
    \cap ((0..(nrows - 1)) \X (0..(ncols - 1)))

\* `if cell is None or drawn_cells[row_idx][col_idx]: continue`
IsSkipped(cell, row_idx, col_idx, drawn) ==
    ~cell.real \/ <<row_idx, col_idx>> \in drawn

\* the header loop from position (row_idx, col_idx) on, 0-based as in the
\* source: the _draw_cell calls made, in order
RECURSIVE DrawHeaders(_, _, _, _, _)
DrawHeaders(headers, row_idx, col_idx, drawn, ncols) ==
    IF row_idx >= Len(headers) THEN <<>>
    ELSE IF col_idx >= Len(headers[row_idx + 1])
    THEN DrawHeaders(headers, row_idx + 1, 0, drawn, ncols)
    ELSE LET cell == headers[row_idx + 1][col_idx + 1]
         IN  IF IsSkipped(cell, row_idx, col_idx, drawn)
             THEN DrawHeaders(headers, row_idx, col_idx + 1, drawn, ncols)
             ELSE <<[row_idx |-> row_idx, col_idx |-> col_idx,
                     rowspan |-> cell.rowspan,
                     colspan |-> cell.colspan,
                     text |-> ProcessValue(PStr(cell.text), FALSE, None, 0)]>>
                  \o DrawHeaders(headers, row_idx, col_idx + 1,
                                 drawn \cup Footprint(row_idx, col_idx, cell,
                                                      Len(headers), ncols),
                                 ncols)

\* a cell that is not None stands at a column drawn_cells does not have
HeaderIndexError(headers, ncols) ==
    \E r \in 1..Len(headers) : \E c \in 1..Len(headers[r]) :
        headers[r][c].real /\ c - 1 >= ncols

\* `str(keyword) in str(text)`
IsSubstring(keyword, text) ==
    \E i \in 0..(Len(text) - Len(keyword)) :
        SubSeq(text, i + 1, i + Len(keyword)) = keyword

\* a mutant: any cell of the row may hold the keyword
RuleMatchesAnyCell(rule, last_header, row) ==
    \E i \in 1..Len(row) : IsSubstring(rule.keyword, row[i])

\* one highlight rule on one row: the first cell of the last header row with
\* the rule's text gives col_idx (StopIteration when there is none, IndexError
\* when the row is shorter: both skip the rule)
RuleMatches(rule, last_header, row) ==
    LET at == {i \in 1..Len(last_header) :
                  last_header[i].real /\ last_header[i].text = rule.col_name}
    IN  /\ at # {}
        /\ LET col_idx == CHOOSE i \in at : \A j \in at : i <= j
           IN  col_idx <= Len(row) /\ IsSubstring(rule.keyword, row[col_idx])

\* should_highlight of a row; headers[-1] of no headers is an IndexError,
\* which skips the rule as well
ShouldHighlight(highlight_rules, headers, row) ==
    /\ headers # <<>>
    /\ \E k \in 1..Len(highlight_rules) :
          RuleMatches(highlight_rules[k], headers[Len(headers)], row)

\* col_name of the data cell at col_idx (0-based)
ColumnName(last_header, col_idx) ==
    IF col_idx < Len(last_header) /\ last_header[col_idx + 1].real
    THEN last_header[col_idx + 1].text
    ELSE <<>>

\* the status texts of self.color_mapping: green, red and yellow light
S_GREEN == <<"lv", "deng">>
S_RED == <<"hong", "deng">>
S_YELLOW == <<"huang", "deng">>

\* self.color_mapping
color_mapping ==
    (S_GREEN :> "#059669") @@ (S_RED :> "#DC2626") @@ (S_YELLOW :> "#D97706")

\* self.styles['text_color'] and self.styles['empty_text_color']
TEXT_COLOR == "#111827"
EMPTY_TEXT_COLOR == "#9CA3AF"

\* the default of the parameter color_column
NO_COLOR_COLUMN == <<>>

\* text_color of a data cell in _draw_cell
TextColor(text, column_name, color_column) ==
    IF text = PLACEHOLDER THEN EMPTY_TEXT_COLOR
    ELSE IF column_name = color_column /\ text \in DOMAIN color_mapping
         THEN color_mapping[text]
    ELSE TEXT_COLOR

\* the _draw_cell calls of one data row
DrawRow(headers, row, row_idx, color_column, highlight_rules, replace_zero) ==
    LET should_highlight == ShouldHighlight(highlight_rules, headers, row)
    IN  [c \in 1..Len(row) |->
            LET text == ProcessValue(PStr(row[c]), replace_zero, None, 0)
                col_name == ColumnName(headers[Len(headers)], c - 1)
            IN  [row_idx |-> row_idx, col_idx |-> c - 1,
                 text |-> text,
                 column_name |-> col_name,
                 text_color |-> TextColor(text, col_name, color_column),
                 highlight |-> should_highlight]]

\* headers[-1] of no headers, outside the try of the highlight loop
DataIndexError(headers, rows) ==
    headers = <<>> /\ \E i \in 1..Len(rows) : rows[i] # <<>>

\* _create_table(json.dumps(table), color_column, replace_zero,
\* highlight_rules, dpi) on an
\* instance with the sizes (width, height, font): what it raises, what it
\* draws and the sizes it leaves in the instance.  A raise in
\* _calculate_table_size leaves the sizes as they were; a raise after the
\* scaling leaves them scaled.
CreateTable(table, color_column, replace_zero, highlight_rules, dpi, width, height, font) ==
    LET headers == ToCells(table.headers)
        rows == table.data
        size == CalculateTableSize(headers, rows, height)
        ncols == Scaled(size.total_width, dpi) \div Scaled(size.cell_width, dpi)
        raised == IF size.raised # "" THEN size.raised
                  ELSE IF HeaderIndexError(headers, ncols) THEN "IndexError"
                  ELSE IF DataIndexError(headers, rows) THEN "IndexError"
                  ELSE ""
    IN  IF size.raised # ""
        THEN [raised |-> raised, size |-> size, header_cells |-> <<>>,
              data_cells |-> <<>>,
              cell_width |-> width, cell_height |-> height, font_size |-> font]
        ELSE IF raised # ""
        THEN [raised |-> raised, size |-> size, header_cells |-> <<>>,
              data_cells |-> <<>>,
              cell_width |-> Scaled(size.cell_width, dpi),
              cell_height |-> Scaled(height, dpi), font_size |-> Scaled(font, dpi)]
        ELSE [raised |-> "", size |-> size,
              header_cells |-> DrawHeaders(headers, 0, 0, {}, ncols),
              data_cells |-> [i \in 1..Len(rows) |->
                                 DrawRow(headers, rows[i], i - 1, color_column,
                                         highlight_rules, replace_zero)],
              cell_width |-> Restored(size.cell_width, Scaled(size.cell_width, dpi)),
              cell_height |-> Restored(height, Scaled(height, dpi)),
              font_size |-> Restored(font, Scaled(font, dpi))]

----------------------------------------------------------------------------
(* TableImageGenerator.create_table_image *)

MaxRecords == 2   \* records per call
MaxLeaks == 2     \* calls are made while fewer than MaxLeaks scalings were left behind

K_a == <<"a">>
K_b == <<"b">>
K_c == <<"c">>
S_A == <<"A">>
S_B == <<"B">>
S_G == <<"G">>
S_H == <<"H">>
S_S == <<"S">>
S_T == <<"T">>
S_X == <<"X">>

Item(k, val) == [k |-> k, val |-> val]

RecordPool ==
    { <<Item(K_a, PStr(S_A)), Item(K_b, PInt(0)), Item(K_c, PStr(S_FAIL))>>,
      <<Item(K_a, PStr(S_B)), Item(K_b, PInt(5)), Item(K_c, PStr(<<"0", ".", "0">>))>>,
      <<Item(K_c, PInt(86400)), Item(K_b, PStr(<<"0", ".", "0">>)), Item(K_a, PStr(<<>>))>>,
      <<Item(K_a, PStr(S_RED)), Item(K_b, PStr(S_GREEN))>> }

SeqsUpTo(S, n) == UNION {[1..m -> S] : m \in 0..n}

DataSets == SeqsUpTo(RecordPool, MaxRecords)

ColumnOrders ==
    {NoneList, List(<<K_a, K_b, K_c>>), List(<<K_a, K_b>>), List(<<K_c, K_a>>)}

Layer(header, span) == [header |-> header, span |-> span]

MultiColumns ==
    {NoneList,
     List(<< <<Layer(S_G, 2), Layer(S_H, 1)>> >>),
     List(<< <<Layer(S_G, 2), Layer(S_H, 1)>>, <<Layer(S_T, 3)>> >>),
     List(<< <<Layer(S_G, 1), Layer(S_H, 1)>> >>)}

ColumnDisplays ==
    {NoneDict,
     Dict(<<>>),
     Dict((K_b :> PStr(S_S)) @@ (K_c :> PStr(S_S))),
     Dict((K_a :> PStr(S_NAME)) @@ (K_b :> PStr(TO_DAY)) @@ (K_c :> PStr(TO_FORMAT)))}

\* color_column: left at its default, or the column b
ColorColumns == {NO_COLOR_COLUMN, K_b}

Rule(col_name, keyword) == [col_name |-> col_name, keyword |-> keyword]

HighlightRules ==
    {<<>>,
     <<Rule(S_S, <<"A", "I">>)>>,
     <<Rule(S_X, <<>>), Rule(S_G, S_B), Rule(K_c, S_A)>>}

RECURSIVE ScaledTimes(_, _)
ScaledTimes(x, k) == IF k = 0 THEN x ELSE ScaledTimes(Scaled(x, DPI), k - 1)

NoImage == [raised |-> "", header_cells |-> <<>>, data_cells |-> <<>>]

\* create_table_image(data, output_file, columns_order, color_column=...,
\* multi_columns=..., column_display=..., replace_zero=...,
\* highlight_rules=...) without a banner
CreateTableImage ==
    /\ pc = "idle"
    /\ cell_height < ScaledTimes(CELL_HEIGHT, MaxLeaks)
    /\ \E data \in DataSets, columns_order \in ColumnOrders,
          multi_columns \in MultiColumns, column_display \in ColumnDisplays,
          replace_zero \in BOOLEAN, highlight_rules \in HighlightRules,
          color_column \in ColorColumns :
          \* table_data = self._build_table_data(...), then, if that returned,
          \* self._create_table(table_data, ...)
          \E table \in {BuildTableData(data, columns_order, multi_columns,
                                      column_display, replace_zero, tz)} :
          \E made \in {IF table.raised # "" THEN NoImage
                       ELSE CreateTable(table, color_column, replace_zero,
                                        highlight_rules, DPI,
                                        cell_width, cell_height, font_size)} :
              /\ call' = [op |-> "create_table_image", data |-> data,
                          columns_order |-> columns_order,
                          color_column |-> color_column,
                          multi_columns |-> multi_columns,
                          column_display |-> column_display,
                          replace_zero |-> replace_zero,
                          highlight_rules |-> highlight_rules,
                          self |-> [cell_width |-> cell_width,
                                    cell_height |-> cell_height,
                                    font_size |-> font_size]]
              /\ IF table.raised # ""
                 THEN /\ ret' = [op |-> "create_table_image",
                                 raised |-> table.raised, built |-> FALSE,
                                 table |-> table, size |-> <<>>, image |-> NoImage]
                      /\ UNCHANGED <<cell_width, cell_height, font_size>>
                 ELSE /\ ret' = [op |-> "create_table_image",
                                 raised |-> made.raised, built |-> TRUE,
                                 table |-> table, size |-> made.size,
                                 image |-> [raised |-> made.raised,
                                            header_cells |-> made.header_cells,
                                            data_cells |-> made.data_cells]]
                      /\ cell_width' = made.cell_width
                      /\ cell_height' = made.cell_height
                      /\ font_size' = made.font_size
    /\ pc' = "returned"
    /\ UNCHANGED tz

Next == CreateTableImage \/ Return

Spec == Init /\ [][Next]_vars

----------------------------------------------------------------------------
(* Properties of create_table_image *)

ImageReturned == pc = "returned" /\ call.op = "create_table_image"

\* the call built its table (it may still have raised while drawing)
ImageBuilt == ImageReturned /\ ret.built

\* the call returned its image
ImageDone == ImageBuilt /\ ret.raised = ""

\* the columns of column_order with a value outside the empty values in some
\* record, in column_order order
KeptColumns ==
    LET Kept(col) ==
            \E i \in 1..Len(call.data) :
                LET at == {p \in 1..Len(call.data[i]) : call.data[i][p].k = col}
                IN  \E p \in at :
                        call.data[i][p].val \notin
                            {None, PStr(<<>>), PStr(<<"-">>), PInt(0), PStr(<<"0">>),
                             PFloat(0), PStr(<<"0", ".", "0">>)}
    IN  SelectSeq(call.columns_order.items, Kept)

\* the texts of a header row, "" for a null
RowTexts(row) == [j \in 1..Len(row) |-> row[j].text]

\* C1: without a multi-header spec and without a column_display mapping the
\* build completes and returns one header row holding the kept column keys in
\* column_order order and one data row per record with one value per kept column
C1_AsStated ==
    (ImageReturned /\ call.columns_order.given
        /\ ~call.multi_columns.given /\ ~call.column_display.given)
    => /\ ret.built
       /\ Len(ret.table.headers) = 1
       /\ RowTexts(ret.table.headers[1]) = KeptColumns
       /\ Len(ret.table.data) = Len(call.data)
       /\ \A i \in 1..Len(ret.table.data) : Len(ret.table.data[i]) = Len(KeptColumns)

\* the multi-header spec of the call has layers, each of whose declared spans
\* sum to the length of column_order
SpansFillColumnOrder ==
    /\ ListTruthy(call.multi_columns)
    /\ call.columns_order.given
    /\ \A l \in 1..Len(call.multi_columns.items) :
          LayerSpan(call.multi_columns.items[l]) = Len(call.columns_order.items)

\* the painted header cells whose footprint holds grid position (r, c), 0-based
PaintedOver(r, c) ==
    {k \in 1..Len(ret.image.header_cells) :
        LET cell == ret.image.header_cells[k]
        IN  /\ cell.row_idx <= r /\ r < cell.row_idx + cell.rowspan
            /\ cell.col_idx <= c /\ c < cell.col_idx + cell.colspan}

\* C3: with a multi-header spec whose layers each span column_order, every
\* emitted header row has colspans summing to total_cols, the number of kept
\* columns, and every header grid position below that number is in the
\* footprint of exactly one painted header cell
C3_MergeCoverage ==
    (ImageBuilt /\ SpansFillColumnOrder)
    => /\ \A r \in 1..Len(ret.table.headers) :
             RowCols(ret.table.headers[r]) = Len(KeptColumns)
       /\ ret.table.headers # <<>> =>
             (ret.raised = "" /\ ret.size.total_cols = Len(KeptColumns))
       /\ \A r \in 1..Len(ret.table.headers) : \A c \in 1..Len(KeptColumns) :
             Cardinality(PaintedOver(r - 1, c - 1)) = 1

\* C3 witness: a grouped header over pruned columns was painted: a cell of
\* colspan 2 above a row of column names, one column of three pruned
C3_Witness ==
    /\ ImageDone /\ SpansFillColumnOrder
    /\ Len(call.columns_order.items) = 3 /\ Len(KeptColumns) = 2
    /\ Len(ret.table.headers) = 2
    /\ ret.table.headers[1][1].colspan = 2
    /\ Len(ret.image.header_cells) = 3

\* the column_display entry of a column is absent or a display label
NotFormatted(col) ==
    DictGet(call.column_display, col, None) \notin {PStr(TO_DAY), PStr(TO_FORMAT)}

\* C5: with replace_zero, every value of a kept column with no format kind
\* that parses as a float equal to 0 is "-" in the data row
C5_AsStated ==
    (ImageBuilt /\ call.replace_zero /\ call.columns_order.given
        /\ call.column_display.given /\ KeptColumns # <<>>)
    => \A i \in 1..Len(call.data) : \A j \in 1..Len(KeptColumns) :
          LET value == RowGet(call.data[i], KeptColumns[j], PStr(<<>>))
          IN  (NotFormatted(KeptColumns[j]) /\ FloatParses(value) /\ FloatIsZero(value))
              => ret.table.data[i][j] = PLACEHOLDER

\* the label the header shows for a column
LabelOf(col) ==
    IF call.column_display.given /\ col \in DOMAIN call.column_display.map
       /\ NotFormatted(col)
    THEN call.column_display.map[col].s
    ELSE col

\* C6: the last header row of every built table has one real cell of colspan 1
\* per kept column, no null, and the length of every data row, so that the
\* positional lookup gives each data column its own label
C6_AsStated ==
    ImageBuilt
    => /\ ret.table.headers # <<>>
       /\ LET last == ret.table.headers[Len(ret.table.headers)]
          IN  /\ Len(last) = Len(ret.table.filtered.items)
              /\ \A j \in 1..Len(last) : last[j].real /\ last[j].colspan = 1
              /\ \A i \in 1..Len(ret.table.data) : Len(ret.table.data[i]) = Len(last)
              /\ \A j \in 1..Len(last) :
                    ColumnName(last, j - 1) = LabelOf(ret.table.filtered.items[j])

\* C7: with column_order omitted the build completes and every data row has
\* one entry per key of its record, in the record's order
C7_AsStated ==
    (ImageReturned /\ ~call.columns_order.given)
    => /\ ret.built
       /\ Len(ret.table.data) = Len(call.data)
       /\ \A i \in 1..Len(call.data) :
             ret.table.data[i] = [j \in 1..Len(call.data[i]) |-> Str(call.data[i][j].val)]

\* C8: with column_order and a column_display mapping, the built table holds
\* exactly the kept columns, in column_order order: the last header row names
\* them and every data row has one entry per kept column
C8_AsStated ==
    (ImageReturned /\ call.columns_order.given /\ DictTruthy(call.column_display))
    => /\ ret.built
       /\ \A i \in 1..Len(ret.table.data) : Len(ret.table.data[i]) = Len(KeptColumns)
       /\ KeptColumns # <<>> =>
             /\ ret.table.headers # <<>>
             /\ RowTexts(ret.table.headers[Len(ret.table.headers)])
                   = [j \in 1..Len(KeptColumns) |-> LabelOf(KeptColumns[j])]

\* the last header row of the built table
LastHeader == ret.table.headers[Len(ret.table.headers)]

\* a rule names a label that is the text of some real cell of the last header
\* row, and the row's string at that cell's position contains the keyword
MatchesAtSomeCell(rule, row) ==
    \E j \in 1..Len(LastHeader) :
        /\ LastHeader[j].real /\ LastHeader[j].text = rule.col_name
        /\ j <= Len(row) /\ IsSubstring(rule.keyword, row[j])

\* the same at the first real cell of the last header row with that text
MatchesAtFirstCell(rule, row) ==
    \E j \in 1..Len(LastHeader) :
        /\ LastHeader[j].real /\ LastHeader[j].text = rule.col_name
        /\ \A i \in 1..(j - 1) :
              ~(LastHeader[i].real /\ LastHeader[i].text = rule.col_name)
        /\ j <= Len(row) /\ IsSubstring(rule.keyword, row[j])

\* every cell of data row i was drawn with the highlight flag `flag`
RowDrawnWith(i, flag) ==
    \A c \in 1..Len(ret.image.data_cells[i]) :
        ret.image.data_cells[i][c].highlight = flag

\* C9 as stated: a row is highlighted if and only if some rule's label is the
\* text of a real cell of the last header row and the row's string at that
\* cell's position contains the keyword; every cell of the row gets that flag
C9_AsStated ==
    ImageDone
    => \A i \in 1..Len(ret.table.data) :
          RowDrawnWith(i, \E k \in 1..Len(call.highlight_rules) :
                              MatchesAtSomeCell(call.highlight_rules[k], ret.table.data[i]))

\* C9 amended: the position looked at is that of the first real cell of the
\* last header row whose text is the rule's label; a rule with no such cell, or
\* whose cell lies beyond the row, is skipped, and every cell of the row is
\* drawn with the one flag
C9_HighlightAtFirstCell ==
    ImageDone
    => \A i \in 1..Len(ret.table.data) :
          RowDrawnWith(i, \E k \in 1..Len(call.highlight_rules) :
                              MatchesAtFirstCell(call.highlight_rules[k], ret.table.data[i]))

\* C9 witness: under the rules (X, ""), (G, "B"), (c, "A"), of which the first
\* names no header cell, one row was drawn highlighted and another one not
C9_Witness ==
    /\ ImageDone
    /\ call.highlight_rules = <<Rule(S_X, <<>>), Rule(S_G, S_B), Rule(K_c, S_A)>>
    /\ Len(ret.image.data_cells) = 2
    /\ ret.image.data_cells[1] # <<>> /\ ret.image.data_cells[2] # <<>>
    /\ RowDrawnWith(1, FALSE)
    /\ RowDrawnWith(2, TRUE)

\* C11 as stated: every call of create_table_image, whatever calls came before
\* it on the instance and however they ended, started with cell_height 60 and
\* font_size 24
C11_AsStated ==
    ImageReturned
    => /\ call.self.cell_height = 60
       /\ call.self.font_size = 24

\* the colours of the status texts
StatusColors == {"#059669", "#DC2626", "#D97706"}

\* the last header row names the designated colour column at position c
UnderColorColumn(c) ==
    /\ call.color_column # <<>>
    /\ c <= Len(LastHeader)
    /\ LastHeader[c].real
    /\ LastHeader[c].text = call.color_column

\* C12 as stated: a data cell is painted in a status colour only when a colour
\* column was designated, the last header row carries its label at the cell's
\* position and the cell's text is a status text other than "-"; with
\* color_column left at its default no data cell is painted in a status colour
C12_AsStated ==
    ImageDone
    => \A i \in 1..Len(ret.image.data_cells) :
          \A c \in 1..Len(ret.image.data_cells[i]) :
             LET cell == ret.image.data_cells[i][c]
             IN  cell.text_color \in StatusColors
                 => /\ UnderColorColumn(c)
                    /\ cell.text \in {S_GREEN, S_RED, S_YELLOW}
                    /\ cell.text # <<"-">>

----------------------------------------------------------------------------
(* _calculate_table_size and _create_table called on tables of any width *)

MaxCols == 16   \* columns of a table
MaxRows == 2    \* data rows of a table

S_h == <<"h">>
S_x == <<"x">>

\* a table with `depth` header rows over k columns (the last row names the
\* columns, the rows above it are one cell spanning them all) and n data rows
\* of m strings
Table(depth, k, n, m) ==
    [headers |-> [r \in 1..depth |->
                     IF r = depth THEN [j \in 1..k |-> HCell(S_h, 1)]
                     ELSE [j \in 1..k |-> IF j = 1 THEN HCell(S_G, k) ELSE Marker]],
     data |-> [i \in 1..n |-> [j \in 1..m |-> S_x]]]

\* the column counts tried: none, the widest cells (1, 3), the first count
\* below the widest cell (8), the last above the narrowest (15), and those of
\* the narrowest cell (16 and more)
ColCounts == {0, 1, 3, 8, 15} \cup (16..MaxCols)

\* the tables whose data rows are as long as the header or one string longer
AlignedTables ==
    {Table(depth, k, n, k + more) :
        depth \in 0..2, k \in ColCounts, n \in 0..MaxRows, more \in 0..1}

\* a direct call of _calculate_table_size(headers, data)
CalculateTableSizeCall ==
    /\ pc = "idle"
    /\ \E table \in AlignedTables :
          LET size == CalculateTableSize(ToCells(table.headers), table.data, cell_height)
          IN  /\ call' = [op |-> "_calculate_table_size", table |-> table,
                          self |-> [cell_width |-> cell_width,
                                    cell_height |-> cell_height,
                                    font_size |-> font_size]]
              /\ ret' = [op |-> "_calculate_table_size", raised |-> size.raised,
                         total_width |-> size.total_width,
                         total_height |-> size.total_height]
              /\ cell_width' = IF size.raised = "" THEN size.cell_width ELSE cell_width
    /\ pc' = "returned"
    /\ UNCHANGED <<cell_height, font_size, tz>>

\* a direct call of _create_table(json_data, replace_zero=..., dpi=...)
CreateTableCall ==
    /\ pc = "idle"
    /\ cell_height < ScaledTimes(CELL_HEIGHT, MaxLeaks)
    /\ \E table \in AlignedTables, replace_zero \in {FALSE}, dpi \in {DPI, DEFAULT_DPI} :
          \E made \in {CreateTable(table, NO_COLOR_COLUMN, replace_zero, <<>>, dpi,
                                   cell_width, cell_height, font_size)} :
              /\ call' = [op |-> "_create_table", table |-> table,
                          replace_zero |-> replace_zero, dpi |-> dpi,
                          self |-> [cell_width |-> cell_width,
                                    cell_height |-> cell_height,
                                    font_size |-> font_size]]
              /\ ret' = [op |-> "_create_table", raised |-> made.raised,
                         size |-> made.size,
                         image |-> [raised |-> made.raised,
                                    header_cells |-> made.header_cells,
                                    data_cells |-> made.data_cells]]
              /\ cell_width' = made.cell_width
              /\ cell_height' = made.cell_height
              /\ font_size' = made.font_size
    /\ pc' = "returned"
    /\ UNCHANGED tz

NextRender == CalculateTableSizeCall \/ CreateTableCall \/ Return

SpecRender == Init /\ [][NextRender]_vars

----------------------------------------------------------------------------
(* Properties of _calculate_table_size and _create_table *)

SizeReturned == pc = "returned" /\ call.op = "_calculate_table_size"

RenderReturned == pc = "returned" /\ call.op = "_create_table"

\* the call of _create_table returned its image
RenderDone == RenderReturned /\ ret.raised = ""

\* the sum of the colspans of the cells of a header row
RECURSIVE SpanSum(_, _)
SpanSum(row, upto) ==
    IF upto = 0 THEN 0
    ELSE SpanSum(row, upto - 1) + (IF row[upto].real THEN row[upto].colspan ELSE 0)

\* the largest colspan sum of a header row or length of a data row
Widest(table) ==
    LET extents == {SpanSum(table.headers[r], Len(table.headers[r])) :
                        r \in 1..Len(table.headers)}
                   \cup {Len(table.data[i]) : i \in 1..Len(table.data)}
    IN  CHOOSE e \in extents \cup {0} : \A x \in extents : x <= e

Least(a, b) == IF a <= b THEN a ELSE b
Most(a, b) == IF a >= b THEN a ELSE b

\* C4 as stated: when a render call that started with all three sizes set
\* completes, cell_width, cell_height and font_size are what they were when
\* the call started
C4_AsStated ==
    (RenderDone /\ call.self.cell_width # NoWidth
        /\ call.self.cell_height = CELL_HEIGHT /\ call.self.font_size = FONT_SIZE)
    => /\ cell_width = call.self.cell_width
       /\ cell_height = call.self.cell_height
       /\ font_size = call.self.font_size

\* C4 amended: when a render call completes, cell_height and font_size are what
\* they were when the call started, and cell_width is the unscaled width
\* computed for the table of this call, min(240, max(120, 1840 // total_cols)),
\* whatever it was before
C4_SizesRestored ==
    RenderDone
    => /\ cell_height = call.self.cell_height
       /\ font_size = call.self.font_size
       /\ cell_width = Least(240, Most(120, 1840 \div Widest(call.table)))

\* C4 witness: a second render call, started with cell_width 240 left by an
\* earlier one, completed on a table of 8 columns: the height and the font size
\* are back at 60 and 24 and cell_width is 230
C4_Witness ==
    /\ RenderDone
    /\ call.self = [cell_width |-> 240, cell_height |-> 60, font_size |-> 24]
    /\ Widest(call.table) = 8
    /\ cell_width = 230 /\ cell_height = 60 /\ font_size = 24

\* C10: with at least one data row and total_cols >= 1, _calculate_table_size
\* sets cell_width = min(240, max(120, 1840 // total_cols)) and returns
\* total_cols * cell_width + 1 and (header rows + data rows) * cell_height + 1;
\* 3 columns give the width 240
C10_GridGeometry ==
    (SizeReturned /\ Len(call.table.data) >= 1 /\ Widest(call.table) >= 1)
    => LET total_cols == Widest(call.table)
       IN  /\ ret.raised = ""
           /\ cell_width = Least(240, Most(120, 1840 \div total_cols))
           /\ ret.total_width = total_cols * cell_width + 1
           /\ ret.total_height =
                 (Len(call.table.headers) + Len(call.table.data)) * cell_height + 1
           /\ total_cols = 3 => cell_width = 240

\* C10 witness: a table of 3 columns under a two-row header and with two data
\* rows was measured: width 240, size 721 x 241
C10_Witness ==
    /\ SizeReturned /\ ret.raised = ""
    /\ Widest(call.table) = 3
    /\ Len(call.table.headers) = 2 /\ Len(call.table.data) = 2
    /\ cell_height = 60
    /\ cell_width = 240 /\ ret.total_width = 721 /\ ret.total_height = 241

====
